---- MODULE Spec2Model ----
(***************************************************************************)
(* Model of the ID3 tag reader MP3Reader::MP3Reader (src/main.cpp).        *)
(*                                                                         *)
(* The byte buffer `data` is a sequence of bytes (0..255); the C index i   *)
(* is the TLA+ index i+1.  Values of type uint32_t are records             *)
(* [hi, lo] of two 16-bit halves, so that arithmetic wraps modulo 2^32     *)
(* exactly as in the code.  A read outside the buffer is undefined         *)
(* behaviour: the model lets it either fault (pc = "crashed") or return    *)
(* whatever the memory after the buffer holds (`beyond`, chosen            *)
(* nondeterministically when it is first read).                            *)
(***************************************************************************)
EXTENDS Integers, Sequences, FiniteSets, TLC

VARIABLES
    data,       \* MP3Reader::data, the loaded file (size = Len(data))
    beyond,     \* the bytes of memory after the buffer, once a read observed them
    pc,         \* position of the caller inside getMetadata
    v1tag,      \* result of the last getID3v1Tag call
    tags,       \* getMetadata: tags, the result of getID3v2Tags
    ti,         \* getMetadata: index of the tag of the outer loop
    pos,        \* getID3v2TagFrames: pos
    frames,     \* getID3v2TagFrames: frames / getMetadata: tag_frames
    frame_size, \* getID3v2TagFrames: frame_size of the frame yielded last
    fi,         \* getMetadata: index of the frame of the inner loop
    metadata,   \* getMetadata: metadata
    oob,        \* the function that first read outside [0, size), or "none"
    visited     \* history: the frames getMetadata has dispatched on, in order

vars ==
    <<data, beyond, pc, v1tag, tags, ti, pos, frames, frame_size, fi, metadata, oob, visited>>

-----------------------------------------------------------------------------
(* Bounds of the model *)

\* the frame walk is followed for at most this many yielded frames
MaxFrames == 3
\* number of bytes after the buffer a read can return before it faults
MaxOOB == 2
\* the largest number of junk bytes put in front of a generated tag
MaxLead == 1

-----------------------------------------------------------------------------
(* Program constants *)

TagHeaderSize == 10
FrameHeaderSize == 10
ID3v1TagSize == 128

ID3 == <<73, 68, 51>>
TAG == <<84, 65, 71>>
TIT2 == <<84, 73, 84, 50>>
TPE1 == <<84, 80, 69, 49>>
TALB == <<84, 65, 76, 66>>
TYER == <<84, 89, 69, 82>>
TDRC == <<84, 68, 82, 67>>
TRCK == <<84, 82, 67, 75>>
TCON == <<84, 67, 79, 78>>
APIC == <<65, 80, 73, 67>>
ImageJpeg == <<105, 109, 97, 103, 101, 47, 106, 112, 101, 103>>

-----------------------------------------------------------------------------
(* uint32_t arithmetic *)

Half == 256 * 256

U32(n) == [hi |-> n \div Half, lo |-> n % Half]

AddU32(a, b) ==
    LET l == a.lo + b.lo
        h == a.hi + b.hi + (l \div Half)
    IN  [hi |-> h % Half, lo |-> l % Half]

SubU32(a, b) ==
    LET l == a.lo - b.lo
        h == a.hi - b.hi - (IF l < 0 THEN 1 ELSE 0)
    IN  [hi |-> (h + Half) % Half, lo |-> (l + Half) % Half]

LtU32(a, b) == a.hi < b.hi \/ (a.hi = b.hi /\ a.lo < b.lo)

\* n < u for a small non-negative n (every buffer of the model is shorter than 2^16)
LtIntU32(n, u) == u.hi > 0 \/ n < u.lo

RECURSIVE BitOr(_, _)
BitOr(a, b) ==
    IF a = 0 THEN b
    ELSE IF b = 0 THEN a
    ELSE (IF a % 2 = 1 \/ b % 2 = 1 THEN 1 ELSE 0) + 2 * BitOr(a \div 2, b \div 2)

-----------------------------------------------------------------------------
(* Memory *)

size == Len(data)

\* the first index no read can return a value for
ReadEnd(m) == size + Len(m)

\* data[i], or the memory after the buffer for i >= size
Byte(m, i) == IF i < size THEN data[i + 1] ELSE m[i - size + 1]

Bytes(m, from, n) == [k \in 1..n |-> Byte(m, from + k - 1)]

NoMem == <<>>
OOBBytes == {0, 65}
BeyondChoices == IF beyond = NoMem THEN [1..MaxOOB -> OOBBytes] ELSE {beyond}

-----------------------------------------------------------------------------
(* Size codec *)

size7bitsToNormal(b) ==
    U32(BitOr(BitOr(b[1] * 2097152, b[2] * 16384), BitOr(b[3] * 128, b[4])))

size8bitsToNormal(b) ==
    [hi |-> BitOr(b[1] * 256, b[2]), lo |-> BitOr(b[3] * 256, b[4])]

getTagSize(tagOff) == size7bitsToNormal(Bytes(NoMem, tagOff + 6, 4))

version_major(tagOff) == data[tagOff + 4]

FrameSizeField(fpos) == Bytes(NoMem, fpos + 4, 4)

getFrameSizeGE4(tagOff, fpos) ==
    IF version_major(tagOff) >= 4 THEN size7bitsToNormal(FrameSizeField(fpos))
    ELSE size8bitsToNormal(FrameSizeField(fpos))

getFrameSize(tagOff, fpos) ==
    IF version_major(tagOff) = 4 THEN size7bitsToNormal(FrameSizeField(fpos))
    ELSE size8bitsToNormal(FrameSizeField(fpos))

FrameId(fpos) == Bytes(NoMem, fpos, 4)

-----------------------------------------------------------------------------
(* Tag locator *)

\* a returned ID3v1Tag*: nullptr, or data + off
NullTag == [found |-> FALSE, off |-> 0]
TagAt(off) == [found |-> TRUE, off |-> off]

getID3v1TagLE ==
    IF size <= ID3v1TagSize THEN NullTag
    ELSE IF SubSeq(data, size - ID3v1TagSize + 1, size - ID3v1TagSize + 3) = TAG
         THEN TagAt(size - ID3v1TagSize)
         ELSE NullTag

getID3v1Tag ==
    IF size < ID3v1TagSize THEN NullTag
    ELSE IF SubSeq(data, size - ID3v1TagSize + 1, size - ID3v1TagSize + 3) = TAG
         THEN TagAt(size - ID3v1TagSize)
         ELSE NullTag

isID3v2TagHeader(i) == data[i + 1] = ID3[1] /\ data[i + 2] = ID3[2] /\ data[i + 3] = ID3[3]

RECURSIVE ScanTags(_, _)
\* for (i = from; i < to; i++) if (isID3v2TagHeader(data + i)) tags.push_back(data + i);
\* the range is halved so that the evaluation stays shallow on long files
ScanTags(from, to) ==
    IF from >= to THEN <<>>
    ELSE IF to = from + 1 THEN (IF isID3v2TagHeader(from) THEN <<from>> ELSE <<>>)
    ELSE LET mid == (from + to) \div 2
         IN  ScanTags(from, mid) \o ScanTags(mid, to)

\* the loop of getID3v2Tags for size >= sizeof(ID3v2TagHeader)
getID3v2Tags == ScanTags(0, size - TagHeaderSize)

\* `size - sizeof(ID3v2TagHeader)` is computed in size_t: below 10 bytes it wraps to
\* about 2^64 and the loop runs past the end of the buffer
ScanOverruns == size < TagHeaderSize

-----------------------------------------------------------------------------
(* Frame walker: getID3v2TagFrames *)

start_pos(tagOff) == U32(tagOff + TagHeaderSize)

\* pos < start_pos + tag_size - sizeof(ID3v2TagFrameHeader): the sum wraps in 32 bits,
\* the subtraction and the comparison are made in size_t
WalkCond(tagOff, p) ==
    LET sum == AddU32(start_pos(tagOff), getTagSize(tagOff))
    IN  IF LtU32(sum, U32(FrameHeaderSize)) THEN TRUE
        ELSE LtU32(p, SubU32(sum, U32(FrameHeaderSize)))

\* pos + sizeof(ID3v2TagFrameHeader) > size, in size_t
HeaderPastEnd(p) == p.hi > 0 \/ p.lo > size - FrameHeaderSize

\* the loop goes on to yield the frame at p
WalkYields(tagOff, p) ==
    /\ WalkCond(tagOff, p)
    /\ ~HeaderPastEnd(p)
    /\ data[p.lo + 1] # 0

\* pos += sizeof(ID3v2TagFrameHeader) + frame_size
Advance(tagOff, p) ==
    AddU32(p, AddU32(U32(FrameHeaderSize), getFrameSize(tagOff, p.lo)))

-----------------------------------------------------------------------------
(* Payload decoder: getTextFrameData *)

RECURSIVE Utf16Ascii(_, _, _, _, _)
\* for (i = 0; i < frame_size; i += 2) if (frame_data[i] != 0 && frame_data[i] < 128) ...
Utf16Ascii(m, from, i, n, acc) ==
    IF i >= n THEN acc
    ELSE LET b == Byte(m, from + i)
         IN  Utf16Ascii(m, from, i + 2, n,
                        IF b # 0 /\ b < 128 THEN Append(acc, b) ELSE acc)

\* [fault: a read no memory answers, last: the largest index read, value: the string]
getTextFrameData(m, tagOff, fpos) ==
    LET fd == fpos + FrameHeaderSize
        n  == SubU32(getFrameSize(tagOff, fpos), U32(1))
    IN  IF fd >= ReadEnd(m) THEN [fault |-> TRUE, last |-> fd, value |-> <<>>]
        ELSE LET encoding == Byte(m, fd)
                 from == fd + 1
             IN  IF encoding \in {0, 3}
                 THEN IF n = U32(0) THEN [fault |-> FALSE, last |-> fd, value |-> <<>>]
                      ELSE IF n.hi > 0 \/ from + n.lo > ReadEnd(m)
                           THEN [fault |-> TRUE, last |-> ReadEnd(m), value |-> <<>>]
                      ELSE [fault |-> FALSE, last |-> fd + n.lo,
                            value |-> Bytes(m, from, n.lo)]
                 ELSE IF encoding \in {1, 2}
                 THEN IF n = U32(0) THEN [fault |-> FALSE, last |-> fd, value |-> <<>>]
                      ELSE IF n.hi > 0 \/ from + 2 * ((n.lo - 1) \div 2) >= ReadEnd(m)
                           THEN [fault |-> TRUE, last |-> ReadEnd(m), value |-> <<>>]
                      ELSE [fault |-> FALSE, last |-> from + 2 * ((n.lo - 1) \div 2),
                            value |-> Utf16Ascii(m, from, 0, n.lo, <<>>)]
                 ELSE [fault |-> FALSE, last |-> fd, value |-> <<>>]

-----------------------------------------------------------------------------
(* Payload decoder: getPictureFrameData *)

RECURSIVE ScanNul(_, _, _, _, _)
\* while (data_pos < frame_size && frame_data[data_pos] != 0) data_pos++;
\* l is the largest index read so far; returns [p: data_pos after the loop, fault, last]
ScanNul(m, fd, p, fs, l) ==
    IF ~LtIntU32(p, fs) THEN [p |-> p, fault |-> FALSE, last |-> l]
    ELSE IF fd + p >= ReadEnd(m) THEN [p |-> p, fault |-> TRUE, last |-> fd + p]
    ELSE IF Byte(m, fd + p) = 0 THEN [p |-> p, fault |-> FALSE, last |-> fd + p]
    ELSE ScanNul(m, fd, p + 1, fs, fd + p)

RECURSIVE ScanNul16(_, _, _, _, _)
\* while (data_pos < frame_size - 1 &&
\*        !(frame_data[data_pos] == 0 && frame_data[data_pos+1] == 0)) data_pos += 2;
ScanNul16(m, fd, p, fs1, l) ==
    IF ~LtIntU32(p, fs1) THEN [p |-> p, fault |-> FALSE, last |-> l]
    ELSE IF fd + p >= ReadEnd(m) THEN [p |-> p, fault |-> TRUE, last |-> fd + p]
    ELSE IF Byte(m, fd + p) # 0 THEN ScanNul16(m, fd, p + 2, fs1, fd + p)
    ELSE IF fd + p + 1 >= ReadEnd(m) THEN [p |-> p, fault |-> TRUE, last |-> fd + p + 1]
    ELSE IF Byte(m, fd + p + 1) = 0 THEN [p |-> p, fault |-> FALSE, last |-> fd + p + 1]
    ELSE ScanNul16(m, fd, p + 2, fs1, fd + p + 1)

\* the mime type as the specification words it: "image/jpeg" whenever the scan met no
\* terminator
MimeTypeDefaultIfUnterminated(scanned, terminated) ==
    IF scanned = <<>> \/ ~terminated THEN ImageJpeg ELSE scanned

\* if (mime_type.empty()) mime_type = "image/jpeg";
MimeType(scanned, terminated) == IF scanned = <<>> THEN ImageJpeg ELSE scanned

\* [fault, last, mime: mime_type, off: the index of image_data, isize: image_size]
getPictureFrameData(m, tagOff, fpos) ==
    LET fd == fpos + FrameHeaderSize
        fs == getFrameSize(tagOff, fpos)
        bad(l) == [fault |-> TRUE, last |-> l, mime |-> <<>>, off |-> 0, isize |-> U32(0)]
    IN  IF fd >= ReadEnd(m) THEN bad(fd)
        ELSE LET encoding == Byte(m, fd)
                 ms == ScanNul(m, fd, 1, fs, fd)
             IN  IF ms.fault THEN bad(ms.last)
                 ELSE LET mime == MimeType(Bytes(m, fd + 1, ms.p - 1), LtIntU32(ms.p, fs))
                          \* past the terminator and the picture type
                          p2 == ms.p + 2
                          ds == IF encoding \in {0, 3} THEN ScanNul(m, fd, p2, fs, ms.last)
                                ELSE IF encoding \in {1, 2}
                                     THEN ScanNul16(m, fd, p2, SubU32(fs, U32(1)), ms.last)
                                ELSE [p |-> p2, fault |-> FALSE, last |-> ms.last]
                          p3 == IF encoding \in {0, 3} THEN ds.p + 1
                                ELSE IF encoding \in {1, 2} THEN ds.p + 2
                                ELSE ds.p
                      IN  IF ds.fault THEN bad(ds.last)
                          ELSE [fault |-> FALSE,
                                last  |-> ds.last,
                                mime  |-> mime,
                                off   |-> fd + p3,
                                isize |-> SubU32(fs, U32(p3))]

-----------------------------------------------------------------------------
(* Metadata assembler: getMetadata *)

NullPtr == [kind |-> "null", off |-> 0]
WildPtr == [kind |-> "indeterminate", off |-> 0]
ViewAt(off) == [kind |-> "view", off |-> off]

\* MP3_Metadata metadata; the strings are default-constructed, image_data and image_size
\* have no initializer and hold indeterminate values
NewMetadata(ptr, isize) ==
    [title |-> <<>>, artist |-> <<>>, album |-> <<>>, year |-> <<>>,
     track_num |-> <<>>, genre |-> <<>>, mime_type |-> <<>>, description |-> <<>>,
     image_data |-> ptr, image_size |-> isize]

UninitPtrs == {NullPtr, WildPtr}
UninitSizes == {U32(0), [hi |-> 65535, lo |-> 65535]}

\* the field a frame identifier is assigned to, "" for the identifiers not dispatched on
FieldOf(id) ==
    IF id = TIT2 THEN "title"
    ELSE IF id = TPE1 THEN "artist"
    ELSE IF id = TALB THEN "album"
    ELSE IF id = TYER \/ id = TDRC THEN "year"
    ELSE IF id = TRCK THEN "track_num"
    ELSE IF id = TCON THEN "genre"
    ELSE ""

\* metadata.<field> = getTextFrameData(tag, frame), keeping the first value written
StoreTextFirstWins(md, field, value) ==
    IF md[field] = <<>> THEN [md EXCEPT ![field] = value] ELSE md

\* metadata.<field> = getTextFrameData(tag, frame)
StoreText(md, field, value) == [md EXCEPT ![field] = value]

CurTag == tags[ti]
CurFrame == frames[fi]
FirstOOB(fn) == IF oob = "none" THEN fn ELSE oob

-----------------------------------------------------------------------------
(* The loaded files the model starts from *)

Zeros(n) == [k \in 1..n |-> 0]

\* a size field holding n < 128, which both codecs decode to n
SizeBytes(n) == <<0, 0, 0, n>>

MakeFrame(id, sz, body) == id \o sz \o <<0, 0>> \o body

MakeTag(ver, S, content) == ID3 \o <<ver, 0, 0>> \o SizeBytes(S) \o content

XXXX == <<88, 88, 88, 88>>

TextIds == {TIT2, TPE1, TALB, TYER, TDRC, TRCK, TCON}

Encodings == {0, 1, 2, 3, 7}

\* "AB" in Latin-1, in UTF-16 little-endian with its mark, in UTF-16 big-endian, a
\* non-ASCII code unit (U+0441) in little-endian, an odd number of bytes, nothing
Payloads ==
    {<<65, 66>>, <<255, 254, 65, 0, 66, 0>>, <<0, 65, 0, 66>>, <<65, 4>>, <<65, 0, 66>>, <<>>}

\* files without any tag, and files shorter than a tag header
PlainFiles ==
    {<<>>, ID3, Zeros(3), ID3 \o Zeros(6), ID3 \o Zeros(7), ID3 \o Zeros(8), Zeros(12),
     <<0>> \o ID3 \o Zeros(8), ID3 \o ID3 \o ID3 \o ID3 \o Zeros(2)}

\* one well-formed tag holding one text frame
TextFiles ==
    {MakeTag(ver, FrameHeaderSize + 1 + Len(pl),
             MakeFrame(id, SizeBytes(1 + Len(pl)), <<enc>> \o pl)) \o Zeros(pad) :
        ver \in {3, 4}, id \in {TIT2, TPE1}, enc \in Encodings, pl \in Payloads,
        pad \in {0, 12}}

\* size fields of a frame whose body is 3 bytes long
SizeFields ==
    {SizeBytes(3), SizeBytes(0), SizeBytes(5), SizeBytes(40), <<0, 0, 1, 128>>,
     <<255, 255, 255, 246>>, <<255, 255, 255, 245>>}

\* one tag holding one text frame, with the sizes the file declares right or wrong
MalformedFiles ==
    {Zeros(lead) \o MakeTag(ver, S, MakeFrame(TIT2, sz, <<enc, 65, 66>>)) \o Zeros(pad) :
        lead \in 0..MaxLead, ver \in {3, 4, 5}, S \in {11, 13, 127}, sz \in SizeFields,
        enc \in {0, 1}, pad \in {0, 12}}

TextFrame(id, ch) == MakeFrame(id, SizeBytes(2), <<0, ch>>)

\* two tags, two frames in the first and one in the second
TwoTagFiles ==
    {MakeTag(3, 34, TextFrame(id1, 65) \o TextFrame(id2, 66) \o Zeros(10))
        \o MakeTag(4, 22, TextFrame(id3, 67) \o Zeros(10)) :
        id1 \in TextIds \cup {XXXX}, id2 \in {TIT2, TDRC, XXXX}, id3 \in {TIT2, TYER, XXXX}}

\* picture type, description and image bytes of an APIC body
PictureTails ==
    {<<>>, <<3>>, <<3, 0, 9, 9>>, <<3, 68, 0, 9>>, <<3, 68, 0, 0, 0, 9, 9>>, <<3, 68, 68>>}

\* one tag holding one APIC frame, whose mime type is or is not terminated
PictureFiles ==
    {MakeTag(3, FrameHeaderSize + Len(body) + extra,
             MakeFrame(APIC, SizeBytes(Len(body) + extra), body)) \o Zeros(pad) :
        body \in {<<enc>> \o mime \o term \o tail :
                    enc \in {0, 1, 3, 7}, mime \in {<<>>, <<105>>, <<105, 47>>},
                    term \in {<<>>, <<0>>}, tail \in PictureTails},
        extra \in {0, 2}, pad \in {0, 12}}

\* a picture frame that declares no body at all
EmptyPictureFiles ==
    {MakeTag(3, 20, MakeFrame(APIC, SizeBytes(0), <<>>)) \o Zeros(pad) : pad \in {0, 1, 12}}

\* files around the length of an ID3v1 tag
V1Files ==
    {head \o body :
        head \in {<<>>, <<0>>, MakeTag(3, 13, TextFrame(TIT2, 65)) \o Zeros(8)},
        body \in {Zeros(ID3v1TagSize), TAG \o Zeros(ID3v1TagSize - 3),
                  TAG \o Zeros(ID3v1TagSize - 4), <<0>> \o TAG \o Zeros(ID3v1TagSize - 4),
                  <<84, 65>> \o Zeros(ID3v1TagSize - 2)}}

Buffers ==
    PlainFiles \cup TextFiles \cup MalformedFiles \cup TwoTagFiles \cup PictureFiles
        \cup EmptyPictureFiles \cup V1Files

-----------------------------------------------------------------------------
(* The state machine *)

Init ==
    /\ data \in Buffers
    /\ beyond = NoMem
    /\ pc = "loaded"
    /\ v1tag = <<>>
    /\ tags = <<>>
    /\ ti = 0
    /\ pos = U32(0)
    /\ frames = <<>>
    /\ frame_size = U32(0)
    /\ fi = 0
    /\ metadata = NewMetadata(NullPtr, U32(0))
    /\ oob = "none"
    /\ visited = <<>>

\* reader.getID3v1Tag(), before or after getMetadata
GetID3v1Tag ==
    /\ pc \in {"loaded", "done"}
    /\ v1tag = <<>>
    /\ v1tag' = <<getID3v1Tag>>
    /\ UNCHANGED <<data, beyond, pc, tags, ti, pos, frames, frame_size, fi, metadata, oob, visited>>

\* reader.getMetadata(): the declaration of metadata and the call of getID3v2Tags
GetMetadata ==
    /\ pc = "loaded"
    /\ ~ScanOverruns
    /\ \E ptr \in UninitPtrs, isize \in UninitSizes : metadata' = NewMetadata(ptr, isize)
    /\ tags' = getID3v2Tags
    /\ ti' = 1
    /\ pc' = "tags"
    /\ UNCHANGED <<data, beyond, v1tag, pos, frames, frame_size, fi, oob, visited>>

\* getMetadata on a file shorter than a tag header: the scan of getID3v2Tags reads
\* data[size] and on, for about 2^64 iterations, until a read faults
GetMetadataOverrun ==
    /\ pc = "loaded"
    /\ ScanOverruns
    /\ oob' = FirstOOB("getID3v2Tags")
    /\ pc' = "crashed"
    /\ UNCHANGED <<data, beyond, v1tag, tags, ti, pos, frames, frame_size, fi, metadata, visited>>

\* for (auto tag: tags): getID3v2TagFrames(tag) up to its loop
BeginWalk ==
    /\ pc = "tags"
    /\ ti <= Len(tags)
    /\ pos' = start_pos(CurTag)
    /\ frames' = <<>>
    /\ pc' = "walk"
    /\ UNCHANGED <<data, beyond, v1tag, tags, ti, frame_size, fi, metadata, oob, visited>>

\* one iteration of the loop of getID3v2TagFrames that yields a frame
WalkStep ==
    /\ pc = "walk"
    /\ WalkYields(CurTag, pos)
    /\ Len(frames) < MaxFrames
    /\ frames' = Append(frames, pos.lo)
    /\ frame_size' = getFrameSize(CurTag, pos.lo)
    /\ pos' = Advance(CurTag, pos)
    /\ UNCHANGED <<data, beyond, pc, v1tag, tags, ti, fi, metadata, oob, visited>>

\* the loop of getID3v2TagFrames ends (its condition fails or it breaks)
WalkEnd ==
    /\ pc = "walk"
    /\ ~WalkYields(CurTag, pos)
    /\ fi' = 1
    /\ pc' = "frames"
    /\ UNCHANGED <<data, beyond, v1tag, tags, ti, pos, frames, frame_size, metadata, oob, visited>>

\* for (auto frame: tag_frames): a frame with a text identifier
TextFrameStep ==
    /\ pc = "frames"
    /\ fi <= Len(frames)
    /\ FieldOf(FrameId(CurFrame)) # ""
    /\ \E m \in BeyondChoices :
         LET r == getTextFrameData(m, CurTag, CurFrame)
         IN  IF r.last < size
             THEN /\ metadata' = StoreText(metadata, FieldOf(FrameId(CurFrame)), r.value)
                  /\ fi' = fi + 1
                  /\ visited' = Append(visited, <<CurTag, CurFrame>>)
                  /\ UNCHANGED <<beyond, pc, oob>>
             ELSE /\ oob' = FirstOOB("getTextFrameData")
                  /\ \/ /\ pc' = "crashed"
                        /\ UNCHANGED <<beyond, metadata, fi, visited>>
                     \/ /\ ~r.fault
                        /\ beyond' = m
                        /\ metadata' = StoreText(metadata, FieldOf(FrameId(CurFrame)),
                                                 r.value)
                        /\ fi' = fi + 1
                        /\ visited' = Append(visited, <<CurTag, CurFrame>>)
                        /\ UNCHANGED pc
    /\ UNCHANGED <<data, v1tag, tags, ti, pos, frames, frame_size>>

StorePicture(md, r) ==
    [md EXCEPT !.mime_type = r.mime, !.image_size = r.isize, !.image_data = ViewAt(r.off)]

\* for (auto frame: tag_frames): an APIC frame
PictureFrameStep ==
    /\ pc = "frames"
    /\ fi <= Len(frames)
    /\ FrameId(CurFrame) = APIC
    /\ \E m \in BeyondChoices :
         LET r == getPictureFrameData(m, CurTag, CurFrame)
         IN  IF r.last < size
             THEN /\ metadata' = StorePicture(metadata, r)
                  /\ fi' = fi + 1
                  /\ visited' = Append(visited, <<CurTag, CurFrame>>)
                  /\ UNCHANGED <<beyond, pc, oob>>
             ELSE /\ oob' = FirstOOB("getPictureFrameData")
                  /\ \/ /\ pc' = "crashed"
                        /\ UNCHANGED <<beyond, metadata, fi, visited>>
                     \/ /\ ~r.fault
                        /\ beyond' = m
                        /\ metadata' = StorePicture(metadata, r)
                        /\ fi' = fi + 1
                        /\ visited' = Append(visited, <<CurTag, CurFrame>>)
                        /\ UNCHANGED pc
    /\ UNCHANGED <<data, v1tag, tags, ti, pos, frames, frame_size>>

\* for (auto frame: tag_frames): an identifier no branch matches
OtherFrameStep ==
    /\ pc = "frames"
    /\ fi <= Len(frames)
    /\ FieldOf(FrameId(CurFrame)) = ""
    /\ FrameId(CurFrame) # APIC
    /\ fi' = fi + 1
    /\ visited' = Append(visited, <<CurTag, CurFrame>>)
    /\ UNCHANGED <<data, beyond, pc, v1tag, tags, ti, pos, frames, frame_size, metadata, oob>>

\* the inner loop is over: on to the next tag
EndTag ==
    /\ pc = "frames"
    /\ fi > Len(frames)
    /\ ti' = ti + 1
    /\ pc' = "tags"
    /\ UNCHANGED <<data, beyond, v1tag, tags, pos, frames, frame_size, fi, metadata, oob, visited>>

\* return metadata
Return ==
    /\ pc = "tags"
    /\ ti > Len(tags)
    /\ pc' = "done"
    /\ UNCHANGED <<data, beyond, v1tag, tags, ti, pos, frames, frame_size, fi, metadata, oob, visited>>

\* the values the fields and locals of the reader take
TypeOK ==
    /\ data \in Buffers
    /\ beyond = NoMem \/ beyond \in [1..MaxOOB -> OOBBytes]
    /\ pc \in {"loaded", "tags", "walk", "frames", "done", "crashed"}
    /\ Len(v1tag) <= 1
    /\ \A k \in 1..Len(tags) : tags[k] \in 0..(size - TagHeaderSize - 1)
    /\ ti \in 0..(Len(tags) + 1)
    /\ pos.hi \in 0..(Half - 1) /\ pos.lo \in 0..(Half - 1)
    /\ Len(frames) <= MaxFrames
    /\ \A k \in 1..Len(frames) : frames[k] \in 0..(size - FrameHeaderSize)
    /\ pc = "frames" => fi \in 1..(Len(frames) + 1)
    /\ metadata.image_data.kind \in {"null", "indeterminate", "view"}
    /\ oob \in {"none", "getID3v2Tags", "getTextFrameData", "getPictureFrameData"}

Next ==
    \/ GetID3v1Tag
    \/ GetMetadata
    \/ GetMetadataOverrun
    \/ BeginWalk
    \/ WalkStep
    \/ WalkEnd
    \/ TextFrameStep
    \/ PictureFrameStep
    \/ OtherFrameStep
    \/ EndTag
    \/ Return

Spec == Init /\ [][Next]_vars

-----------------------------------------------------------------------------
(* Reference definitions the properties are stated with *)

ToInt(u) == u.hi * Half + u.lo

Last(q) == q[Len(q)]

Pow2(k) == 2 ^ k

Bit(n, k) == (n \div Pow2(k)) % 2

\* bit k of (b0 << 21) | (b1 << 14) | (b2 << 7) | b3
SynchsafeBit(b, k) ==
    \/ Bit(b[4], k) = 1
    \/ k >= 7 /\ Bit(b[3], k - 7) = 1
    \/ k >= 14 /\ Bit(b[2], k - 14) = 1
    \/ k >= 21 /\ Bit(b[1], k - 21) = 1

RECURSIVE SynchsafeSum(_, _)
SynchsafeSum(b, k) ==
    IF k < 0 THEN 0
    ELSE (IF SynchsafeBit(b, k) THEN Pow2(k) ELSE 0) + SynchsafeSum(b, k - 1)

\* the 7-bit decoding of a size field
SynchsafeValue(b) == U32(SynchsafeSum(b, 28))

\* the big-endian 32-bit decoding of a size field
PlainValue(b) == [hi |-> b[1] * 256 + b[2], lo |-> b[3] * 256 + b[4]]

\* the tag the walk is in and the frames it has yielded are defined
InWalk == pc \in {"walk", "frames"}

-----------------------------------------------------------------------------
(* C1 *)

\* C1: no frame the walker yields extends, header plus body, past the declared end of
\* the tag body: pos + 10 + frameSize <= tagStart + 10 + S.
C1_FramesWithinTagBody ==
    InWalk =>
        \A k \in 1..Len(frames) :
            LET fs == getFrameSize(CurTag, frames[k])
                room == CurTag + TagHeaderSize + ToInt(getTagSize(CurTag))
                            - frames[k] - FrameHeaderSize
            IN  room >= 0 /\ ~LtU32(U32(room), fs)

-----------------------------------------------------------------------------
(* C2 *)

RECURSIVE SortedSeq(_)
SortedSeq(S) ==
    IF S = {} THEN <<>>
    ELSE LET lo == CHOOSE x \in S : \A y \in S : x <= y
         IN  <<lo>> \o SortedSeq(S \ {lo})

MagicOffsets == {i \in 0..(size - TagHeaderSize - 1) : SubSeq(data, i + 1, i + 3) = ID3}

\* C2: for a buffer of any length, getID3v2Tags returns exactly the offsets
\* 0 <= i < length-10 holding "ID3", ascending, and reads no byte outside [0, length).
C2_ScanExactAndInBounds ==
    pc # "loaded" =>
        /\ oob # "getID3v2Tags"
        /\ pc # "crashed" => tags = SortedSeq(MagicOffsets)

-----------------------------------------------------------------------------
(* C3 *)

TagMagicAtEnd ==
    /\ size >= 128
    /\ data[size - 127] = 84
    /\ data[size - 126] = 65
    /\ data[size - 125] = 71

\* C3: getID3v1Tag returns the view at length-128 if and only if length >= 128 and the
\* three bytes there are "TAG"; otherwise (every buffer shorter than 128 bytes
\* included) it returns absent.
C3_ID3v1Located ==
    v1tag # <<>> =>
        IF TagMagicAtEnd
        THEN v1tag[1].found /\ v1tag[1].off = size - 128
        ELSE ~v1tag[1].found

\* a tag was found in a file of 128 bytes or more
C3_Witness == v1tag # <<>> /\ v1tag[1].found /\ size >= 128

-----------------------------------------------------------------------------
(* C4 *)

TextFields == {"title", "artist", "album", "year", "track_num", "genre"}

IdsOf(field) ==
    CASE field = "title" -> {TIT2}
      [] field = "artist" -> {TPE1}
      [] field = "album" -> {TALB}
      [] field = "year" -> {TYER, TDRC}
      [] field = "track_num" -> {TRCK}
      [] field = "genre" -> {TCON}

Carrying(field) == {k \in 1..Len(visited) : FrameId(visited[k][2]) \in IdsOf(field)}

DecodedValue(v) == getTextFrameData(beyond, v[1], v[2]).value

LastValue(field) ==
    IF Carrying(field) = {} THEN <<>>
    ELSE DecodedValue(visited[CHOOSE k \in Carrying(field) : \A j \in Carrying(field) : j <= k])

\* C4: after getMetadata, each text field holds the decoded value of the last frame
\* carrying its identifier in scan order (tags by ascending offset, frames in walk
\* order), a field no frame carries is empty, and other identifiers change no field.
C4_LastWriteWins ==
    pc = "done" =>
        /\ \A j, k \in 1..Len(visited) : j < k => visited[j][1] <= visited[k][1]
        /\ \A field \in TextFields : metadata[field] = LastValue(field)

\* two tags carried a title, with different values, and the later one is returned
C4_Witness ==
    /\ pc = "done"
    /\ \E j, k \in Carrying("title") :
         /\ visited[j][1] < visited[k][1]
         /\ DecodedValue(visited[j]) # DecodedValue(visited[k])
         /\ metadata.title = DecodedValue(visited[k])
    /\ metadata.artist = <<>>

-----------------------------------------------------------------------------
(* C5 *)

NoPictureFrame == \A k \in 1..Len(visited) : FrameId(visited[k][2]) # APIC

\* C5: the record getMetadata returns for a buffer without ID3v2 tag has every field
\* empty, and without APIC frame its mime type is empty, its image view null and its
\* image size 0.  (getMetadata has no failure outcome of its own; the faults of reads
\* outside the buffer are the subject of C2 and C8.)
C5_EmptyRecordWithoutTags ==
    pc = "done" =>
        /\ tags = <<>> => \A field \in TextFields : metadata[field] = <<>>
        /\ NoPictureFrame =>
              /\ metadata.mime_type = <<>>
              /\ metadata.image_data = NullPtr
              /\ metadata.image_size = U32(0)

-----------------------------------------------------------------------------
(* C6 *)

\* C6: the frame size the walker uses is the 7-bit decoding of the size field for a
\* tag major version >= 4 and the plain big-endian decoding for a version <= 3.
C6_SizeCodecFromVersion4Up ==
    InWalk /\ frames # <<>> =>
        frame_size = IF version_major(CurTag) >= 4
                     THEN SynchsafeValue(FrameSizeField(Last(frames)))
                     ELSE PlainValue(FrameSizeField(Last(frames)))

\* C6 as amended: the 7-bit decoding is used for major version 4 only; every other
\* version, 5 and above included, gets the plain big-endian decoding.
C6_SizeCodecVersion4Only ==
    InWalk /\ frames # <<>> =>
        frame_size = IF version_major(CurTag) = 4
                     THEN SynchsafeValue(FrameSizeField(Last(frames)))
                     ELSE PlainValue(FrameSizeField(Last(frames)))

\* a frame of a version-5 tag whose two decodings differ was walked as plain
C6_Witness ==
    /\ InWalk
    /\ frames # <<>>
    /\ version_major(CurTag) = 5
    /\ frame_size = PlainValue(FrameSizeField(Last(frames)))
    /\ frame_size # SynchsafeValue(FrameSizeField(Last(frames)))

-----------------------------------------------------------------------------
(* C7 *)

\* C7: the walk position strictly increases on every iteration of the frame walk.
C7_PosStrictlyIncreases == [][pc = "walk" /\ pc' = "walk" => LtU32(pos, pos')]_vars

-----------------------------------------------------------------------------
(* C8 *)

\* C8: during getMetadata every byte the decoders read lies inside the buffer, and
\* the returned image view (offset, image_size) lies entirely inside the buffer.
C8_ReadsInsideBuffer ==
    /\ oob \notin {"getTextFrameData", "getPictureFrameData"}
    /\ metadata.image_data.kind = "view" =>
          /\ metadata.image_data.off <= size
          /\ ~LtU32(U32(size - metadata.image_data.off), metadata.image_size)

-----------------------------------------------------------------------------
(* C9 *)

\* the 16-bit code units of a payload, big-endian or little-endian
RECURSIVE CodeUnits(_, _)
CodeUnits(pl, bigEndian) ==
    IF Len(pl) < 2 THEN <<>>
    ELSE <<IF bigEndian THEN pl[1] * 256 + pl[2] ELSE pl[2] * 256 + pl[1]>>
            \o CodeUnits(SubSeq(pl, 3, Len(pl)), bigEndian)

RECURSIVE AsciiOnly(_)
AsciiOnly(units) ==
    IF units = <<>> THEN <<>>
    ELSE (IF units[1] \in 1..127 THEN <<units[1]>> ELSE <<>>) \o AsciiOnly(Tail(units))

\* the frame dispatched on last is a text frame, decoded from bytes of the buffer
LastIsText == visited # <<>> /\ FieldOf(FrameId(Last(visited)[2])) # "" /\ beyond = NoMem

LastBody ==
    LET fpos == Last(visited)[2]
        fs == getFrameSize(Last(visited)[1], fpos)
    IN  SubSeq(data, fpos + FrameHeaderSize + 1, fpos + FrameHeaderSize + fs.lo)

\* C9: for encoding 1 (UTF-16 with byte-order mark) or 2 (UTF-16 big-endian),
\* getTextFrameData returns exactly the payload's code units in 1..127, in order,
\* and drops every other code unit.
C9_Utf16KeepsAsciiCodeUnits ==
    LastIsText /\ Len(LastBody) >= 1 /\ Len(LastBody) % 2 = 1 =>
        LET enc == LastBody[1]
            pl == Tail(LastBody)
            value == metadata[FieldOf(FrameId(Last(visited)[2]))]
        IN  /\ enc = 2 => value = AsciiOnly(CodeUnits(pl, TRUE))
            /\ enc = 1 /\ Len(pl) >= 2 /\ SubSeq(pl, 1, 2) = <<255, 254>> =>
                  value = AsciiOnly(CodeUnits(pl, FALSE))
            /\ enc = 1 /\ Len(pl) >= 2 /\ SubSeq(pl, 1, 2) = <<254, 255>> =>
                  value = AsciiOnly(CodeUnits(pl, TRUE))

-----------------------------------------------------------------------------
(* C10 *)

LastIsPicture == visited # <<>> /\ FrameId(Last(visited)[2]) = APIC

LastPictureSize == getFrameSize(Last(visited)[1], Last(visited)[2])

\* the body of the picture frame dispatched on last holds no zero byte after its
\* encoding byte
LastMimeUnterminated ==
    /\ LastIsPicture
    /\ LastPictureSize.hi = 0
    /\ \A k \in 1..(LastPictureSize.lo - 1) :
          LET i == Last(visited)[2] + FrameHeaderSize + k
          IN  i < ReadEnd(beyond) /\ Byte(beyond, i) # 0

LastScannedMime ==
    Bytes(beyond, Last(visited)[2] + FrameHeaderSize + 1, LastPictureSize.lo - 1)

\* C10: for an APIC frame without zero byte after the encoding byte, the mime type is
\* reported as "image/jpeg".
C10_UnterminatedMimeIsJpeg == LastMimeUnterminated => metadata.mime_type = ImageJpeg

\* C10 as amended: for such a frame the scan stops at the frame boundary and the mime
\* type is the bytes scanned, body[1 .. frameSize-1]; it is "image/jpeg" only when
\* no byte was scanned (frameSize <= 1).
C10_UnterminatedMimeIsScannedBytes ==
    LastMimeUnterminated =>
        metadata.mime_type =
            IF LastPictureSize.lo <= 1 THEN ImageJpeg ELSE LastScannedMime

\* an unterminated mime type of two bytes was reported as those two bytes
C10_Witness ==
    /\ LastMimeUnterminated
    /\ LastPictureSize.lo = 3
    /\ metadata.mime_type = LastScannedMime
    /\ metadata.mime_type # ImageJpeg

====
